---- MODULE Spec2Model ----
(***************************************************************************)
(* Model of luxtronik/aluxtronik.py: the ALuxtronik session (asyncio).     *)
(*                                                                         *)
(* Tasks are coroutines of one event loop.  A task runs without            *)
(* interruption from one await to the next, so every action below is one   *)
(* such block: it completes the await the task is suspended at and runs    *)
(* the synchronous code up to the next await.  pc[t] names the await at    *)
(* which task t is suspended.                                              *)
(***************************************************************************)
EXTENDS Integers, Sequences, FiniteSets, TLC

\* ---- bounds of the model ----
NumTasks == 2
MaxQueue == 2
MaxLen == 2
MaxConns == 2

Tasks == 1..NumTasks

\* ---- Python values ----
None == 0
PyInt(n) == <<"int", n>>
PyStr == <<"str", 0>>
\* a Python int outside the signed 32-bit range (such as 2**31)
PyLong == <<"long", 0>>

\* isinstance(x, int)
IsInt(x) == x[1] \in {"int", "long"}

\* struct.pack(">i", x) accepts x only in the signed 32-bit range
Packable(x) == x[1] = "int"

\* ---- inputs ----
\* (index, value) pairs a caller may put into parameters.queue
Entry(k, v) == [index |-> k, value |-> v]
Inputs ==
  { Entry(PyInt(1), PyInt(10)), Entry(PyInt(1), PyInt(11)), Entry(PyInt(1), PyStr),
    Entry(PyInt(2), PyInt(10)), Entry(PyInt(2), PyLong),
    Entry(PyStr, PyInt(10)) }
\* integers the controller may answer with: an echo, status or acknowledgement
\* word that is, or is not, the command it answers
Words == {3003, 3004}
Vals == {42, 43}
Lengths == (-1)..MaxLen

WAIT_TIME_AFTER_PARAMETER_WRITE == 1

VARIABLES
  pc,       \* pc[t]: "idle", "waiting", "entered" or the await t is suspended at
  locals,   \* locals[t]: the argument write, the dict iterator, length, the
            \* loop counter and data of the call in progress
  queue,    \* self.parameters.queue, a dict in insertion order
  locked,   \* self._lock._locked
  waiters,  \* self._lock._waiters
  reader,   \* self._reader (None or a connection)
  writer,   \* self._writer (None or a connection)
  opened,   \* number of connections opened so far (connections are 1..opened)
  closed,   \* connections on which close() was called
  lost,     \* connections the peer had reset before close() was called
  lc,       \* position of the caller of __aenter__ / __aexit__
  log,      \* record of the cycle in flight or of the last one that returned:
            \* frames sent, sleeps and parse() calls, in order; after a cycle
            \* that raised, what its last block recorded
  rx,       \* the response in progress, or the last one of a cycle that
            \* returned: rx.n integers were consumed, rx.vals are the declared
            \* length and the elements, rx.over: a frame was sent since
  handed,   \* what parse() was called with for that response, if it was
  snap,     \* the queue as it was when the cycle in flight began; kept until
            \* its first read frame is out
  touched,  \* the queue was assigned to during the write phase or the sleep
  result    \* how the last cycle ended, while no later cycle has begun

vars == <<pc, locals, queue, locked, waiters, reader, writer, opened,
          closed, lost, lc, log, rx, handed, snap, touched, result>>
connVars == <<reader, writer, opened, closed, lost, lc>>
lockVars == <<locked, waiters>>

NoLocals ==
  [write |-> FALSE, itsize |-> 0, itpos |-> 0, length |-> 0, n |-> 0, data |-> <<>>]
NoResult == [task |-> 0, kind |-> "none", at |-> "none", arg |-> <<>>]

WritePcs == {"w_drain", "w_ack1", "w_ack2"}
ParamPcs == {"p_drain", "p_echo", "p_len", "p_elem"}
CalcPcs == {"c_drain", "c_echo", "c_stat", "c_len", "c_elem"}
DrainPcs == {"w_drain", "p_drain", "c_drain"}
RecvPcs == {"w_ack1", "w_ack2", "p_echo", "p_len", "p_elem",
            "c_echo", "c_stat", "c_len", "c_elem"}
ElemPcs == {"p_elem", "c_elem"}
AwaitPcs == WritePcs \cup {"settle"} \cup ParamPcs \cup CalcPcs
CyclePcs == {"entered"} \cup AwaitPcs
SnapPcs == WritePcs \cup {"settle", "p_drain"}

\* ---- events of the record ----
SendEv(t, frame) == [t |-> t, op |-> "send", arg |-> frame]
SleepEv(t) == [t |-> t, op |-> "sleep", arg |-> <<WAIT_TIME_AFTER_PARAMETER_WRITE>>]
ParseEv(t, cmd) ==
  [t |-> t, op |-> IF cmd = 3003 THEN "parse_parameters" ELSE "parse_calculations",
   arg |-> <<>>]
NoRx == [n |-> 0, vals |-> <<>>, over |-> FALSE]
\* rx after a word that is only logged (echo, status, acknowledgement); a
\* response begins with the first integer consumed after a frame was sent
RxWord ==
  IF rx.over THEN [n |-> 1, vals |-> <<>>, over |-> FALSE] ELSE [rx EXCEPT !.n = @ + 1]
\* rx after the declared length or an element v
RxVal(v) == [RxWord EXCEPT !.vals = Append(@, v)]
NotHanded == <<"no">>
Handed(d) == <<"parse", d>>

Init ==
  /\ pc = [t \in Tasks |-> "idle"]
  /\ locals = [t \in Tasks |-> NoLocals]
  /\ queue = <<>>
  /\ locked = FALSE
  /\ waiters = <<>>
  /\ reader = None
  /\ writer = None
  /\ opened = 0
  /\ closed = {}
  /\ lost = {}
  /\ lc = "ready"
  /\ log = <<>>
  /\ rx = NoRx
  /\ handed = NotHanded
  /\ snap = <<>>
  /\ touched = FALSE
  /\ result = NoResult

\* ---- the asyncio.Lock of the session ----
\* (mutant: acquire looks at the waiters only)
CanAcquireUnlocked == waiters = <<>>
\* (mutant: acquire looks at the lock only, so a caller may overtake waiters)
CanAcquireBarging == ~locked
\* Lock.acquire takes the lock at once only when it is free and nobody waits
CanAcquire == ~locked /\ waiters = <<>>

\* (mutant: the lock is released only on return)
ReleasesLockOnReturn(kind) == kind = "ok"
\* `async with self._lock` releases the lock however the block is left
ReleasesLock(kind) == TRUE

\* the array readers' handler: `except struct.error`
Caught(kind) == kind = "struct.error"

\* ---- parameters.queue ----
HasKey(q, k) == \E i \in 1..Len(q) : q[i].index = k

\* queue[k] = v on a dict: an existing key keeps its place, a new key is appended
DictSet(q, k, v) ==
  IF HasKey(q, k)
  THEN [i \in 1..Len(q) |-> IF q[i].index = k THEN Entry(k, v) ELSE q[i]]
  ELSE Append(q, Entry(k, v))

\* (mutant: only the index is tested)
ValidIndexOnly(e) == IsInt(e.index)
\* the test of line 90, negated: the entry is sent
Valid(e) == IsInt(e.index) /\ IsInt(e.value)

\* the entry the for loop sends next: skips (continue) the invalid entries
RECURSIVE NextValid(_, _)
NextValid(q, p) ==
  IF p > Len(q) THEN p
  ELSE IF Valid(q[p]) THEN p ELSE NextValid(q, p + 1)

\* (mutant: index and value change places)
WriteFrameSwapped(e) == <<PyInt(3002), e.value, e.index>>
\* the arguments of _send_ints at line 99 and at lines 110, 130
WriteFrame(e) == <<PyInt(3002), e.index, e.value>>
ReadFrame(cmd) == <<PyInt(cmd), PyInt(0)>>
\* struct.pack(">" + "i" * len(ints), *ints), as the integers on the wire
Pack(ints) == [j \in 1..Len(ints) |-> ints[j][2]]

\* (mutant: one iteration too many)
RangeLenInclusive(length) == IF length < 0 THEN 0 ELSE length + 1
\* range(0, length): the number of iterations of the element loop
RangeLen(length) == IF length < 0 THEN 0 ELSE length

\* (mutant: the calculations are read first)
FirstReadCalculations == 3004
\* _read() runs _read_parameters, then _read_calculations
FirstRead == 3003
NextRead(cmd) == IF cmd = 3003 THEN 3004 ELSE None

\* (mutant: an echo that is not the command sent is refused)
EchoAcceptedIfEqual(cmd, v) == v = cmd
\* the echoed command v is logged and not compared with the command cmd
EchoAccepted(cmd, v) == TRUE

\* (mutants: the test of `write` inverted, or left out)
DoesWriteInverted(w) == ~w
DoesWriteAlways(w) == TRUE
\* the write phase runs only `if write`
DoesWrite(w) == w

\* ---- names of the awaits of the two array readers ----
DrainPc(cmd) == IF cmd = 3003 THEN "p_drain" ELSE "c_drain"
EchoPc(cmd) == IF cmd = 3003 THEN "p_echo" ELSE "c_echo"
LenPc(cmd) == IF cmd = 3003 THEN "p_len" ELSE "c_len"
ElemPc(cmd) == IF cmd = 3003 THEN "p_elem" ELSE "c_elem"
CmdOf(p) == IF p \in ParamPcs THEN 3003 ELSE 3004

\* ---- pieces of a block (they set pc, locals, log, rx, locked, result) ----
\* the task reaches the await newpc
Suspend(t, newpc, l, lg, r, h) ==
  /\ pc' = [pc EXCEPT ![t] = newpc]
  /\ locals' = [locals EXCEPT ![t] = l]
  /\ log' = lg
  /\ rx' = r
  /\ handed' = h
  /\ snap' = IF newpc \in SnapPcs
             THEN IF pc[t] = "entered" THEN queue ELSE snap
             ELSE <<>>
  /\ touched' = (newpc \in SnapPcs /\ pc[t] # "entered" /\ touched)
  /\ result' = NoResult
  /\ UNCHANGED locked

\* the task leaves `async with self._lock`: normally (kind "ok") or by the
\* exception kind raised at `at` (arg: the integers struct.pack refused)
ExitArg(t, kind, at, arg, lg, r, h) ==
  /\ pc' = [pc EXCEPT ![t] = "idle"]
  /\ locals' = [locals EXCEPT ![t] = NoLocals]
  /\ log' = IF kind = "ok" THEN lg ELSE SubSeq(lg, Len(log) + 1, Len(lg))
  /\ rx' = IF kind = "ok" THEN r ELSE NoRx
  /\ handed' = IF kind = "ok" THEN h ELSE NotHanded
  /\ snap' = <<>>
  /\ touched' = FALSE
  /\ locked' = IF ReleasesLock(kind) THEN FALSE ELSE locked
  /\ result' = [task |-> t, kind |-> kind, at |-> at, arg |-> arg]

Exit(t, kind, at, lg, r, h) == ExitArg(t, kind, at, <<>>, lg, r, h)

\* _send_ints(*frame) up to `await self._writer.drain()`
SendInts(t, ints, l, lg, r, h) ==
  LET at == IF ints[1][2] = 3002 THEN "w_drain" ELSE DrainPc(ints[1][2]) IN
  IF \E j \in 1..Len(ints) : ~Packable(ints[j])
  THEN ExitArg(t, "struct.error", at, ints, lg, r, h)
  ELSE IF writer = None
  THEN Exit(t, "AttributeError", at, lg, r, h)
  ELSE Suspend(t, at, l, Append(lg, SendEv(t, Pack(ints))), [r EXCEPT !.over = TRUE], h)

\* _recv_int() up to `await self._reader.readexactly(4)`, outside a try
RecvInt(t, recvPc, l, lg, r, h) ==
  IF reader = None
  THEN Exit(t, "AttributeError", recvPc, lg, r, h)
  ELSE Suspend(t, recvPc, l, lg, r, h)

\* after the element loop: parse(data), then the next reader or the end
ReadDone(t, cmd, l, lg, r) ==
  LET lg2 == Append(lg, ParseEv(t, cmd)) IN
  IF NextRead(cmd) # None
  THEN SendInts(t, ReadFrame(NextRead(cmd)), [NoLocals EXCEPT !.write = l.write],
                lg2, r, Handed(l.data))
  ELSE Exit(t, "ok", "end", lg2, r, Handed(l.data))

\* head of `for _ in range(0, length)` after l.n iterations
ReadElems(t, cmd, l, lg, r) ==
  IF l.n < RangeLen(l.length)
  THEN IF reader = None
       THEN IF Caught("AttributeError")
            THEN ReadDone(t, cmd, [l EXCEPT !.n = RangeLen(l.length)], lg, r)
            ELSE Exit(t, "AttributeError", ElemPc(cmd), lg, r, NotHanded)
       ELSE Suspend(t, ElemPc(cmd), l, lg, r, NotHanded)
  ELSE ReadDone(t, cmd, l, lg, r)

\* (mutant: _read() follows the write phase without the sleep)
WriteLoopNoSleep(t, l, lg, r) ==
  IF l.itsize # Len(queue)
  THEN /\ queue' = queue
       /\ Exit(t, "RuntimeError", "w_next", lg, r, NotHanded)
  ELSE LET p == NextValid(queue, l.itpos + 1) IN
       IF p > Len(queue)
       THEN /\ queue' = <<>>
            /\ SendInts(t, ReadFrame(FirstRead), [NoLocals EXCEPT !.write = l.write],
                        lg, r, NotHanded)
       ELSE /\ queue' = queue
            /\ SendInts(t, WriteFrame(queue[p]), [l EXCEPT !.itpos = p], lg, r, NotHanded)
\* head of `for index, value in self.parameters.queue.items()`; also sets queue
WriteLoop(t, l, lg, r) ==
  IF l.itsize # Len(queue)
  THEN /\ queue' = queue
       /\ Exit(t, "RuntimeError", "w_next", lg, r, NotHanded)
  ELSE LET p == NextValid(queue, l.itpos + 1) IN
       IF p > Len(queue)
       THEN /\ queue' = <<>>
            /\ Suspend(t, "settle", [NoLocals EXCEPT !.write = l.write],
                       Append(lg, SleepEv(t)), r, NotHanded)
       ELSE /\ queue' = queue
            /\ SendInts(t, WriteFrame(queue[p]), [l EXCEPT !.itpos = p], lg, r, NotHanded)

\* (mutant: the exception is swallowed and the call returns)
ThrowSwallowed(t, kind) == Exit(t, "ok", pc[t], log, rx, handed)
\* the await task t is suspended at raises kind
Throw(t, kind) ==
  IF pc[t] \in ElemPcs /\ Caught(kind)
  THEN ReadElems(t, CmdOf(pc[t]), [locals[t] EXCEPT !.n = @ + 1], log, rx)
  ELSE Exit(t, kind, pc[t], log, rx, handed)

\* the connection a handle refers to still delivers
Live(h) == h # None /\ h \notin closed

Remove(q, t) == SelectSeq(q, LAMBDA x : x # t)

\* a cycle begins: the record starts anew
NewRecord ==
  /\ log' = <<>>
  /\ rx' = NoRx
  /\ handed' = NotHanded
  /\ result' = NoResult

\* ---- read() / write() ----
\* read() / write(): _read_after_write(write) up to the lock
Call(t, w) ==
  /\ pc[t] = "idle"
  /\ locals' = [locals EXCEPT ![t] = [NoLocals EXCEPT !.write = w]]
  /\ IF CanAcquire
     THEN /\ locked' = TRUE
          /\ waiters' = waiters
          /\ pc' = [pc EXCEPT ![t] = "entered"]
          /\ NewRecord
     ELSE /\ locked' = locked
          /\ waiters' = Append(waiters, t)
          /\ pc' = [pc EXCEPT ![t] = "waiting"]
          /\ UNCHANGED <<log, rx, handed, result>>
  /\ UNCHANGED <<queue, connVars, snap, touched>>

\* the first waiter is woken once the lock is free, and takes it
Wake(t) ==
  /\ pc[t] = "waiting"
  /\ ~locked
  /\ waiters # <<>> /\ Head(waiters) = t
  /\ locked' = TRUE
  /\ waiters' = Tail(waiters)
  /\ pc' = [pc EXCEPT ![t] = "entered"]
  /\ NewRecord
  /\ UNCHANGED <<locals, queue, connVars, snap, touched>>

\* body of `async with self._lock` up to its first await
Begin(t) ==
  /\ pc[t] = "entered"
  /\ IF DoesWrite(locals[t].write)
     THEN WriteLoop(t, [locals[t] EXCEPT !.itsize = Len(queue)], log, rx)
     ELSE /\ UNCHANGED queue
          /\ SendInts(t, ReadFrame(FirstRead), locals[t], log, rx, NotHanded)
  /\ UNCHANGED <<waiters, connVars>>

\* `await self._writer.drain()` returns or raises
Drain(t) ==
  /\ pc[t] \in DrainPcs
  /\ \E ok \in BOOLEAN :
       /\ ok => Live(writer)
       /\ IF ok
          THEN RecvInt(t, IF pc[t] = "w_drain" THEN "w_ack1" ELSE EchoPc(CmdOf(pc[t])),
                       locals[t], log, rx, handed)
          ELSE Throw(t, "ConnectionResetError")
  /\ UNCHANGED <<queue, waiters, connVars>>

\* cmd = await self._recv_int() of _write returns
RecvAck1(t, v) ==
  /\ pc[t] = "w_ack1" /\ Live(reader)
  /\ RecvInt(t, "w_ack2", locals[t], log, RxWord, NotHanded)
  /\ UNCHANGED <<queue, waiters, connVars>>

\* val = await self._recv_int() of _write returns; the loop goes on
RecvAck2(t, v) ==
  /\ pc[t] = "w_ack2" /\ Live(reader)
  /\ WriteLoop(t, locals[t], log, RxWord)
  /\ UNCHANGED <<waiters, connVars>>

\* the asyncio.sleep after the write phase is over; _read() begins
Settle(t) ==
  /\ pc[t] = "settle"
  /\ SendInts(t, ReadFrame(FirstRead), locals[t], log, rx, NotHanded)
  /\ UNCHANGED <<queue, waiters, connVars>>

\* the echoed command of an array reader arrives
RecvEcho(t, v) ==
  /\ pc[t] \in {"p_echo", "c_echo"} /\ Live(reader)
  /\ IF EchoAccepted(CmdOf(pc[t]), v)
     THEN RecvInt(t, IF pc[t] = "p_echo" THEN "p_len" ELSE "c_stat",
                  locals[t], log, RxWord, NotHanded)
     ELSE Exit(t, "ProtocolError", pc[t], log, rx, handed)
  /\ UNCHANGED <<queue, waiters, connVars>>

\* the status word of _read_calculations arrives
RecvStat(t, v) ==
  /\ pc[t] = "c_stat" /\ Live(reader)
  /\ RecvInt(t, "c_len", locals[t], log, RxWord, NotHanded)
  /\ UNCHANGED <<queue, waiters, connVars>>

\* the declared length arrives; data = [] and the element loop begins
RecvLength(t, v) ==
  /\ pc[t] \in {"p_len", "c_len"} /\ Live(reader)
  /\ ReadElems(t, CmdOf(pc[t]),
                 [locals[t] EXCEPT !.length = v, !.n = 0, !.data = <<>>],
                 log, RxVal(v))
  /\ UNCHANGED <<queue, waiters, connVars>>

\* one element arrives: data.append(val)
RecvElem(t, v) ==
  /\ pc[t] \in ElemPcs /\ Live(reader)
  /\ ReadElems(t, CmdOf(pc[t]),
                 [locals[t] EXCEPT !.data = Append(@, v), !.n = @ + 1],
                 log, RxVal(v))
  /\ UNCHANGED <<queue, waiters, connVars>>

\* readexactly(4) meets the end of the stream: asyncio.IncompleteReadError
RecvFail(t) ==
  /\ pc[t] \in RecvPcs
  /\ Throw(t, "IncompleteReadError")
  /\ UNCHANGED <<queue, waiters, connVars>>

\* the task is cancelled at the await it is suspended at
Cancel(t) ==
  /\ pc[t] \in AwaitPcs
  /\ Throw(t, "CancelledError")
  /\ UNCHANGED <<queue, waiters, connVars>>

\* the task is cancelled while it waits for the lock
CancelWaiting(t) ==
  /\ pc[t] = "waiting"
  /\ waiters' = Remove(waiters, t)
  /\ pc' = [pc EXCEPT ![t] = "idle"]
  /\ UNCHANGED <<locals, queue, locked, connVars, log, rx, handed, snap, touched, result>>

\* ---- the caller's side of parameters.queue ----
Enqueue(e) ==
  /\ HasKey(queue, e.index) \/ Len(queue) < MaxQueue
  /\ queue' = DictSet(queue, e.index, e.value)
  /\ queue' # queue
  /\ touched' = (touched \/ \E t \in Tasks : pc[t] \in WritePcs \cup {"settle"})
  /\ UNCHANGED <<pc, locals, lockVars, connVars, log, rx, handed, snap, result>>

\* ---- __aenter__ / __aexit__ ----
AEnterCall ==
  /\ lc = "ready" /\ opened < MaxConns
  /\ lc' = "connecting"
  /\ UNCHANGED <<pc, locals, queue, lockVars, reader, writer, opened, closed, lost,
                 log, rx, handed, snap, touched, result>>

\* asyncio.open_connection returns a new connection, or raises
AEnterDone ==
  /\ lc = "connecting"
  /\ lc' = "ready"
  /\ \/ /\ opened' = opened + 1
        /\ reader' = opened + 1
        /\ writer' = opened + 1
     \/ UNCHANGED <<opened, reader, writer>>
  /\ UNCHANGED <<pc, locals, queue, lockVars, closed, lost, log, rx, handed, snap,
                 touched, result>>

\* __aexit__ up to `await self._writer.wait_closed()`, or to its end
\* (close() on a connection that is open either closes it cleanly or finds
\* that the peer had reset it; on a closed one it does nothing)
AExitCall ==
  /\ lc = "ready"
  /\ IF writer # None
     THEN /\ closed' = closed \cup {writer}
          /\ \E reset \in BOOLEAN :
               lost' = IF reset /\ writer \notin closed THEN lost \cup {writer} ELSE lost
          /\ lc' = "closing"
          /\ UNCHANGED <<reader, writer>>
     ELSE /\ reader' = None
          /\ writer' = None
          /\ UNCHANGED <<closed, lost, lc>>
  /\ UNCHANGED <<pc, locals, queue, lockVars, opened, log, rx, handed, snap, touched, result>>

\* wait_closed() raises the exception the connection was lost with, if any
WaitClosedRaises(c) == c \in lost

\* `await self._writer.wait_closed()` returns, then lines 43-44; or it raises
AExitDone ==
  /\ lc = "closing"
  /\ lc' = "ready"
  /\ IF WaitClosedRaises(writer)
     THEN UNCHANGED <<reader, writer>>
     ELSE /\ reader' = None
          /\ writer' = None
  /\ UNCHANGED <<pc, locals, queue, lockVars, opened, closed, lost, log, rx,
                 handed, snap, touched, result>>

\* ---- specifications ----
\* the session with NumTasks callers, its queue, its connection and the controller
Next ==
  \/ \E t \in Tasks : \E w \in BOOLEAN : Call(t, w)
  \/ \E t \in Tasks : Wake(t)
  \/ \E t \in Tasks : Begin(t)
  \/ \E t \in Tasks : Drain(t)
  \/ \E t \in Tasks : \E v \in Words : RecvAck1(t, v)
  \/ \E t \in Tasks : \E v \in Words : RecvAck2(t, v)
  \/ \E t \in Tasks : Settle(t)
  \/ \E t \in Tasks : \E v \in Words : RecvEcho(t, v)
  \/ \E t \in Tasks : \E v \in Words : RecvStat(t, v)
  \/ \E t \in Tasks : \E v \in Lengths : RecvLength(t, v)
  \/ \E t \in Tasks : \E v \in Vals : RecvElem(t, v)
  \/ \E t \in Tasks : RecvFail(t)
  \/ \E t \in Tasks : Cancel(t)
  \/ \E t \in Tasks : CancelWaiting(t)
  \/ \E e \in Inputs : Enqueue(e)
  \/ AEnterCall
  \/ AEnterDone
  \/ AExitCall
  \/ AExitDone

Spec == Init /\ [][Next]_vars

\* one caller: its cycles, against every queue and answer, on a session that
\* is opened at most once
NextCycle ==
  \/ \E w \in BOOLEAN : Call(1, w)
  \/ Begin(1)
  \/ Drain(1)
  \/ \E v \in Words : RecvAck1(1, v)
  \/ \E v \in Words : RecvAck2(1, v)
  \/ Settle(1)
  \/ \E v \in Words : RecvEcho(1, v)
  \/ \E v \in Words : RecvStat(1, v)
  \/ \E v \in Lengths : RecvLength(1, v)
  \/ \E v \in Vals : RecvElem(1, v)
  \/ RecvFail(1)
  \/ Cancel(1)
  \/ \E e \in Inputs : Enqueue(e)
  \/ (opened = 0 /\ AEnterCall)
  \/ AEnterDone
  \/ AExitCall
  \/ AExitDone

SpecCycle == Init /\ [][NextCycle]_vars

\* NumTasks concurrent callers on a session whose connection is open, with
\* one parameter to write and answers of at most one element
InitOpen ==
  /\ pc = [t \in Tasks |-> "idle"]
  /\ locals = [t \in Tasks |-> NoLocals]
  /\ queue = <<>>
  /\ locked = FALSE
  /\ waiters = <<>>
  /\ reader = 1
  /\ writer = 1
  /\ opened = 1
  /\ closed = {}
  /\ lost = {}
  /\ lc = "ready"
  /\ log = <<>>
  /\ rx = NoRx
  /\ handed = NotHanded
  /\ snap = <<>>
  /\ touched = FALSE
  /\ result = NoResult

LockInputs == {Entry(PyInt(1), PyInt(10))}
LockLengths == {0, 1}
LockVals == {42}

NextLock ==
  \/ \E t \in Tasks : \E w \in BOOLEAN : Call(t, w)
  \/ \E t \in Tasks : Wake(t)
  \/ \E t \in Tasks : Begin(t)
  \/ \E t \in Tasks : Drain(t)
  \/ \E t \in Tasks : \E v \in Words : RecvAck1(t, v)
  \/ \E t \in Tasks : \E v \in Words : RecvAck2(t, v)
  \/ \E t \in Tasks : Settle(t)
  \/ \E t \in Tasks : \E v \in Words : RecvEcho(t, v)
  \/ \E t \in Tasks : \E v \in Words : RecvStat(t, v)
  \/ \E t \in Tasks : \E v \in LockLengths : RecvLength(t, v)
  \/ \E t \in Tasks : \E v \in LockVals : RecvElem(t, v)
  \/ \E t \in Tasks : RecvFail(t)
  \/ \E t \in Tasks : Cancel(t)
  \/ \E t \in Tasks : CancelWaiting(t)
  \/ \E e \in LockInputs : Enqueue(e)

SpecLock == InitOpen /\ [][NextLock]_vars

\* the event loop runs every task that is ready: a woken waiter takes the
\* lock, and a cycle whose await is answered goes on
CycleStep(t) ==
  \/ Begin(t)
  \/ Drain(t)
  \/ \E v \in Words : RecvAck1(t, v) \/ RecvAck2(t, v) \/ RecvEcho(t, v) \/ RecvStat(t, v)
  \/ Settle(t)
  \/ \E v \in LockLengths : RecvLength(t, v)
  \/ \E v \in LockVals : RecvElem(t, v)

SpecLockFair ==
  /\ SpecLock
  /\ \A t \in Tasks : WF_vars(Wake(t)) /\ WF_vars(CycleStep(t))

\* the session opened and closed up to MaxConns times, with one caller whose
\* queue stays empty
NextConn ==
  \/ \E w \in BOOLEAN : Call(1, w)
  \/ Begin(1)
  \/ Drain(1)
  \/ Settle(1)
  \/ \E v \in Words : RecvEcho(1, v)
  \/ \E v \in Words : RecvStat(1, v)
  \/ \E v \in LockLengths : RecvLength(1, v)
  \/ \E v \in LockVals : RecvElem(1, v)
  \/ RecvFail(1)
  \/ AEnterCall
  \/ AEnterDone
  \/ AExitCall
  \/ AExitDone

SpecConn == Init /\ [][NextConn]_vars

\* ---- reading the record ----
InCycle(t) == pc[t] \in CyclePcs
IsSend(ev, cmds) == ev.op = "send" /\ ev.arg[1] \in cmds
FramesOf(lg, cmds) ==
  LET sel == SelectSeq(lg, LAMBDA ev : IsSend(ev, cmds)) IN
  [i \in 1..Len(sel) |-> sel[i].arg]
\* the entries of q the write phase has to send, as frames
Sendable(e) == e.index[1] # "str" /\ e.value[1] # "str"
ExpectedFrames(q) ==
  LET sel == SelectSeq(q, LAMBDA e : Sendable(e)) IN
  [i \in 1..Len(sel) |-> <<3002, sel[i].index[2], sel[i].value[2]>>]

\* C1: at most one cycle runs at a time: at most one task is inside
\* `async with self._lock`, it holds the lock, and everything the record of
\* the cycle holds (write phase, sleep, both reads) was done by that one task,
\* so the frames of two cycles never interleave.
C1_MutualExclusion ==
  /\ Cardinality({t \in Tasks : InCycle(t)}) <= 1
  /\ \A t \in Tasks : InCycle(t) => locked /\ \A i \in 1..Len(log) : log[i].t = t
  /\ \A i, j \in 1..Len(log) : log[i].t = log[j].t

C1_Witness ==
  \E t, u \in Tasks :
    /\ pc[t] = "c_drain" /\ pc[u] = "waiting"
    /\ FramesOf(log, {3002, 3003, 3004}) = <<<<3002, 1, 10>>, <<3003, 0>>, <<3004, 0>>>>

\* C2: in a write cycle every 3002 frame of the queued entries is out, and its
\* two acknowledgements are consumed, when the first 3003 frame is sent; no
\* 3002 frame follows a 3003 or 3004 frame in the record of a cycle.
C2_WritesBeforeReads ==
  /\ \A i, j \in 1..Len(log) :
       i < j /\ IsSend(log[i], {3003, 3004}) => ~IsSend(log[j], {3002})
  /\ \A t \in Tasks :
       pc[t] = "p_drain" /\ locals[t].write /\ ~touched =>
         /\ FramesOf(log, {3002}) = ExpectedFrames(snap)
         /\ ExpectedFrames(snap) # <<>> => rx.n = 2

C2_Witness ==
  /\ pc[1] = "p_drain" /\ locals[1].write /\ ~touched
  /\ FramesOf(log, {3002, 3003}) = <<<<3002, 2, 10>>, <<3002, 1, 11>>, <<3003, 0>>>>

\* C3: a read-only cycle emits no 3002 frame and none of its steps changes the
\* queue: the queue changes only by the caller's assignment or in a write cycle.
C3_ReadOnly ==
  /\ [](\A t \in Tasks : InCycle(t) /\ ~locals[t].write => FramesOf(log, {3002}) = <<>>)
  /\ [][queue' # queue =>
          \/ \E e \in Inputs : queue' = DictSet(queue, e.index, e.value)
          \/ \E t \in Tasks : InCycle(t) /\ locals[t].write]_vars

C3_Witness ==
  /\ result.kind = "ok"
  /\ log = <<SendEv(1, <<3003, 0>>), ParseEv(1, 3003), SendEv(1, <<3004, 0>>),
             ParseEv(1, 3004)>>
  /\ queue = <<Entry(PyInt(1), PyInt(10)), Entry(PyStr, PyInt(10))>>

\* C4: a write phase over integer entries that meets no failure sends exactly
\* one (3002, index, value) frame per entry, in the order of the queue, consumes
\* exactly two acknowledgement integers after each frame before the next one
\* goes out, and leaves the queue empty.
AllInt32(q) == \A i \in 1..Len(q) : q[i].index[1] = "int" /\ q[i].value[1] = "int"
FrameOfEntry(e) == <<3002, e.index[2], e.value[2]>>
C4_WritePhase ==
  \A t \in Tasks :
    ~touched /\ AllInt32(snap) =>
      /\ pc[t] \in WritePcs =>
           /\ FramesOf(log, {3002}) =
                [i \in 1..locals[t].itpos |-> FrameOfEntry(snap[i])]
           /\ pc[t] = "w_drain" /\ locals[t].itpos > 1 => rx.n = 2
           /\ pc[t] = "w_ack2" => rx.n = 1
      /\ pc[t] = "settle" =>
           /\ FramesOf(log, {3002}) = [i \in 1..Len(snap) |-> FrameOfEntry(snap[i])]
           /\ snap # <<>> => rx.n = 2
           /\ queue = <<>>

C4_Witness ==
  /\ pc[1] = "settle" /\ ~touched
  /\ snap = <<Entry(PyInt(2), PyInt(10)), Entry(PyInt(1), PyInt(10))>>
  /\ FramesOf(log, {3002}) = <<<<3002, 2, 10>>, <<3002, 1, 10>>>>
  /\ queue = <<>>

\* C5: the parameters are read before the calculations: a cycle sends its
\* 3003 frame first and at most one 3003 and one 3004 frame; the 3004 frame
\* goes out only after the whole 3003 response was consumed and handed to
\* the parameter sink; a cycle that returns has sent exactly 3003, then 3004.
C5_ParametersFirst ==
  LET reads == FramesOf(log, {3003, 3004})
      whole == rx.vals # <<>> /\
               rx.n = 2 + (IF rx.vals[1] < 0 THEN 0 ELSE rx.vals[1])
  IN
  result.kind \in {"none", "ok"} =>
    /\ Len(reads) <= 2
    /\ Len(reads) >= 1 => reads[1] = <<3003, 0>>
    /\ Len(reads) = 2 => reads[2] = <<3004, 0>>
    /\ \A i \in 1..Len(log) :
         /\ log[i].op = "parse_parameters" => i > 1 /\ IsSend(log[i - 1], {3003})
         /\ IsSend(log[i], {3004}) => i > 1 /\ log[i - 1].op = "parse_parameters"
         /\ log[i].op = "parse_calculations" => i > 1 /\ IsSend(log[i - 1], {3004})
    /\ \A t \in Tasks : pc[t] = "c_drain" => handed # NotHanded /\ whole
    /\ result.kind = "ok" =>
         /\ reads = <<<<3003, 0>>, <<3004, 0>>>>
         /\ log[Len(log)].op = "parse_calculations"

C5_Witness ==
  /\ result.kind = "ok"
  /\ log = <<SendEv(1, <<3002, 1, 10>>), SleepEv(1), SendEv(1, <<3003, 0>>),
             ParseEv(1, 3003), SendEv(1, <<3004, 0>>), ParseEv(1, 3004)>>

\* C6 (as claimed): when the stream ends while an element of an array is
\* awaited, the reader does not raise to the caller.
C6_ShortArrayTolerated ==
  ~(result.kind = "IncompleteReadError" /\ result.at \in ElemPcs)

\* C7 (as claimed): however a write phase ends, normally or by an I/O failure
\* on a send or on an acknowledgement read, the queue is empty afterwards.
C7_QueueAlwaysCleared ==
  [][\A t \in Tasks :
       /\ pc[t] \in WritePcs
       /\ \/ pc'[t] = "settle"
          \/ result'.kind \in {"ConnectionResetError", "IncompleteReadError"}
       => queue' = <<>>]_vars

\* C8: the lock is released on every exit path: whenever no task is inside
\* `async with self._lock` (after a return, an exception of any phase or a
\* cancellation, also of the sleep) the lock is free, and the first waiter is
\* then ready to take it.
C8_LockReleased ==
  /\ (\A t \in Tasks : ~InCycle(t)) => ~locked
  /\ result.kind # "none" => ~InCycle(result.task) /\ ~locked
  /\ ~locked /\ waiters # <<>> => pc[Head(waiters)] = "waiting"

C8_Witness ==
  /\ result.kind = "CancelledError" /\ result.at = "settle"
  /\ ~locked
  /\ waiters # <<>> /\ pc[Head(waiters)] = "waiting"

\* C9: a write phase over a queue that mixes non-integer entries with valid
\* ones sends the frames of the valid entries only, in order, and clears the
\* queue; no non-integer entry ever reaches struct.pack, so skipping does not
\* raise.
C9_SkipsNonIntegers ==
  /\ \A t \in Tasks :
       pc[t] = "settle" /\ ~touched /\ (\E i \in 1..Len(snap) : ~Sendable(snap[i])) =>
         /\ FramesOf(log, {3002}) = ExpectedFrames(snap)
         /\ queue = <<>>
  /\ result.kind = "struct.error" =>
       \A j \in 1..Len(result.arg) : result.arg[j][1] # "str"

C9_Witness ==
  /\ pc[1] = "settle" /\ ~touched
  /\ snap = <<Entry(PyInt(1), PyStr), Entry(PyInt(2), PyInt(10))>>
  /\ FramesOf(log, {3002}) = <<<<3002, 2, 10>>>>
  /\ queue = <<>>

\* C10: for a declared length L >= 0 whose L values arrive, an array reader
\* consumes the header (echo and length; echo, status and length for the
\* calculations) and exactly L integers, and hands exactly those L values, in
\* wire order, to parse(); for L = 0 it hands the empty sequence and consumes
\* the header only.
C10_ArrayRead ==
  handed # NotHanded /\ rx.vals # <<>> /\ rx.vals[1] >= 0 =>
    LET L == rx.vals[1]
        hdr == IF log[Len(log)].op = "parse_calculations" THEN 3 ELSE 2
    IN
    /\ handed = Handed(Tail(rx.vals))
    /\ Len(Tail(rx.vals)) = L
    /\ rx.n = hdr + L

C10_Witness ==
  /\ result.kind = "ok"
  /\ handed = Handed(<<43, 42>>)
  /\ rx.n = 5

\* C11 (as claimed): parse() is never called for a response whose declared
\* length is negative.
C11_NegativeLengthRejected ==
  handed # NotHanded /\ rx.vals # <<>> => rx.vals[1] >= 0

\* C12 (as claimed): at most one connection opened by the session is unclosed,
\* and the handles of the session refer to it.
Unclosed == {c \in 1..opened : c \notin closed}
C12_OneLiveConnection ==
  /\ Cardinality(Unclosed) <= 1
  /\ \A c \in Unclosed : reader = c /\ writer = c

\* C13 (as claimed): a read() or write() that finds the session without a
\* connection ends at once with an error: its first block leaves the cycle
\* with an exception and has recorded neither a frame nor a sleep.
C13_NotConnectedFailFast ==
  [][\A t \in Tasks :
       pc[t] = "entered" /\ writer = None /\ pc'[t] # "entered" =>
         /\ pc'[t] = "idle"
         /\ result'.kind \notin {"ok", "none"}
         /\ log' = <<>>]_vars

\* C14 (as claimed): __aexit__ never raises and always ends with both handles
\* cleared; on a session whose handles are cleared it changes nothing.
C14_CloseIdempotent ==
  [][/\ lc = "closing" /\ lc' = "ready" => reader' = None /\ writer' = None
     /\ lc = "ready" /\ writer = None => closed' = closed /\ writer' = None]_vars

\* C15: an I/O failure outside an array element read (a failed drain, or the
\* end of the stream while an acknowledgement, echo, status or length is
\* awaited) ends the cycle with that exception for the caller: the failing
\* block sends no frame and calls no sink, and no connection is opened.
Propagated(t, kind) ==
  /\ pc'[t] = "idle"
  /\ result' = [task |-> t, kind |-> kind, at |-> pc[t], arg |-> <<>>]
  /\ log' = <<>>
  /\ handed' = NotHanded
  /\ opened' = opened /\ reader' = reader /\ writer' = writer
C15_IOFailurePropagates ==
  [][\A t \in Tasks :
       /\ RecvFail(t) /\ pc[t] \notin ElemPcs => Propagated(t, "IncompleteReadError")
       /\ Drain(t) /\ pc'[t] = "idle" => Propagated(t, "ConnectionResetError")]_vars

C15_Witness ==
  /\ result = [task |-> 1, kind |-> "IncompleteReadError", at |-> "c_stat", arg |-> <<>>]
  /\ pc[1] = "idle" /\ log = <<>> /\ handed = NotHanded /\ ~locked

\* C16: a write cycle goes write phase, sleep, parameters, calculations: the
\* one sleep of a cycle comes after every 3002 frame and directly before the
\* 3003 frame, it begins in the block that cleared the queue (also when the
\* queue was empty or held only skipped entries), and a read-only cycle
\* sleeps never and begins with the 3003 frame.
SleepsAt(lg) == {i \in 1..Len(lg) : lg[i].op = "sleep"}
C16_SettlePath ==
  /\ [](/\ \A i \in SleepsAt(log) :
            /\ SleepsAt(log) = {i}
            /\ \A j \in 1..Len(log) :
                 /\ IsSend(log[j], {3002}) => j < i
                 /\ ~IsSend(log[j], {3002}) /\ j # i => j > i
            /\ i < Len(log) => IsSend(log[i + 1], {3003})
        /\ \A t \in Tasks :
            /\ pc[t] \in WritePcs => locals[t].write /\ SleepsAt(log) = {}
            /\ pc[t] = "settle" => locals[t].write /\ SleepsAt(log) = {Len(log)}
            /\ pc[t] \in ParamPcs \cup CalcPcs =>
                 (locals[t].write <=> SleepsAt(log) # {})
            /\ pc[t] = "p_drain" /\ ~locals[t].write =>
                 log = <<SendEv(t, <<3003, 0>>)>>)
  /\ [][\A t \in Tasks : pc'[t] = "settle" /\ pc[t] # "settle" => queue' = <<>>]_vars

C16_Witness ==
  /\ pc[1] = "p_drain" /\ locals[1].write /\ ~touched
  /\ snap = <<Entry(PyStr, PyInt(10))>>
  /\ log = <<SleepEv(1), SendEv(1, <<3003, 0>>)>>

\* C17: the words that are only logged do not change the outcome: a block that
\* consumes an acknowledgement, an echoed command or a status word ends in the
\* same state (frames sent, values handed to the sinks, queue, position of the
\* cycle) whatever the value of the word, and an echo that is not the command
\* sent lets the reader go on to its next integer.
C17_WordIndependence ==
  [][\A t \in Tasks : \A v, u \in Words :
       /\ RecvAck1(t, v) => RecvAck1(t, u)
       /\ RecvAck2(t, v) => RecvAck2(t, u)
       /\ RecvEcho(t, v) => RecvEcho(t, u)
       /\ RecvStat(t, v) => RecvStat(t, u)
       /\ RecvEcho(t, v) /\ v # CmdOf(pc[t]) =>
            pc'[t] = (IF pc[t] = "p_echo" THEN "p_len" ELSE "c_stat")]_vars

C17_Witness ==
  /\ result.kind = "ok"
  /\ FramesOf(log, {3002, 3003, 3004}) = <<<<3002, 1, 11>>, <<3003, 0>>, <<3004, 0>>>>
  /\ handed = Handed(<<42>>)
  /\ queue = <<>>

\* C18 (as claimed): when the write phase clears the queue, every valid entry
\* the queue holds at that moment has been sent in a 3002 frame of the cycle.
C18_NoPendingWriteLost ==
  [][queue # <<>> /\ queue' = <<>> =>
       \A i \in 1..Len(queue) :
         Sendable(queue[i]) =>
           <<3002, queue[i].index[2], queue[i].value[2]>>
             \in {log'[j].arg : j \in 1..Len(log')}]_vars

\* C19: a caller that finds the lock held, or finds waiters, waits; a waiter
\* takes the lock only when it is free and only as the first of the waiters,
\* no later caller overtakes a waiter, and (the event loop running every ready
\* task, so that every cycle ends) every waiter leaves the wait: it takes the
\* lock, unless it is cancelled first.
C19_FifoNoStarvation ==
  /\ [][\A t \in Tasks :
          /\ pc[t] = "waiting" /\ pc'[t] = "entered" =>
               ~locked /\ Head(waiters) = t /\ waiters' = Tail(waiters)
          /\ pc[t] = "idle" /\ pc'[t] = "entered" => ~locked /\ waiters = <<>>
          /\ pc[t] = "idle" /\ pc'[t] = "waiting" =>
               (locked \/ waiters # <<>>) /\ waiters' = Append(waiters, t)]_vars
  /\ \A t \in Tasks : (pc[t] = "waiting") ~> (pc[t] # "waiting")

C19_Witness ==
  /\ ~locked
  /\ waiters = <<2, 1>>
  /\ pc[1] = "waiting" /\ pc[2] = "waiting"

\* C20 (as claimed): while a cycle is suspended at a send, a receive or the
\* sleep, the reader and writer handles of the session do not change.
C20_HandlesStable ==
  [][(\E t \in Tasks : pc[t] \in AwaitPcs) =>
       reader' = reader /\ writer' = writer]_vars

====
